---- MODULE Spec2Model ----
(***************************************************************************)
(* A model of poops.py: the stock ledger kept in user_health_data.json,    *)
(* the four handlers that write it, and estimate_transit_hours.            *)
(*                                                                         *)
(* Units.  Instants are integer seconds since an arbitrary origin; a       *)
(* stored "date" string "%Y-%m-%d %H:%M" is the integer second at which    *)
(* that minute starts.  Masses are integer hundredths of a gram, so that   *)
(* round(x, 1) is a real operation.  Python's binary floating point noise  *)
(* (0.1 + 0.2) is not modelled: arithmetic is exact decimal arithmetic.    *)
(***************************************************************************)
EXTENDS Integers, Sequences, FiniteSets, TLC

VARIABLES
    file,        \* user_health_data.json: its state and the users it holds
    clock,       \* the wall clock, datetime.datetime.now()
    session,     \* st.session_state of each user's browser session
    history,     \* per user, the logs of the user's last save that kept them
    saves,       \* the number of save_data calls so far
    run,         \* per user, the script run in progress and its data
    est_meals,   \* estimate_transit_hours: the meals argument
    est_poops,   \* estimate_transit_hours: the poops argument
    est_now,     \* estimate_transit_hours: datetime.datetime.now()
    est_out,     \* estimate_transit_hours: the returned (median, stats)
    attempts,    \* per user, the recognizer calls of the last analysis
    norm_raw,    \* normalize_ai_result: the raw argument
    norm_out,    \* normalize_ai_result: the returned (record, reason)
    cfg_in,      \* calculate_poop_amount: st.secrets and the arguments
    cfg_out      \* calculate_poop_amount: the value returned, or the raise

est_vars == <<est_meals, est_poops, est_now, est_out>>
fn_vars == <<norm_raw, norm_out, cfg_in, cfg_out>>
app_vars == <<file, clock, session, history, saves, run, attempts>>
vars == <<file, clock, session, history, saves, run, attempts,
          est_meals, est_poops, est_now, est_out,
          norm_raw, norm_out, cfg_in, cfg_out>>

-----------------------------------------------------------------------------
(* Time *)

Minute == 60
Hour == 3600
Day == 86400

\* Python's None where a datetime or a number of seconds is expected.
None == -1

\* dt.strftime("%Y-%m-%d %H:%M"): seconds and microseconds are dropped.
format_dt(t) == t - (t % Minute)

\* datetime.strptime(value, "%Y-%m-%d %H:%M"), None when it raises.
parse_dt(value) ==
    IF value \in Nat /\ value % Minute = 0 THEN value ELSE None

-----------------------------------------------------------------------------
(* Masses and calculate_poop_amount *)

\* round(x, 1) of a mass of x hundredths of a gram, in hundredths of a
\* gram.  An exact tie goes to the even tenth, as Python rounds a float
\* that is exactly a tie; the inputs below are never ties.
round_1(x) ==
    LET q == x \div 10
        r == x % 10
    IN  IF r > 5 \/ (r = 5 /\ q % 2 = 1) THEN (q + 1) * 10 ELSE q * 10

\* Line 41: the fallback coefficients 0.1, 0.1, 0.2, 0.9, 2.33, 1.3; the
\* ratios and BAC_FACTOR in tenths, WATER_FACTOR in hundredths.
default_coefficients ==
    [P_RATIO |-> 1, F_RATIO |-> 1, C_RATIO |-> 2, FIBER_RATIO |-> 9,
     WATER_FACTOR |-> 233, BAC_FACTOR |-> 13]

\* st.secrets as deployed with the API key alone: no coefficient is set.
\* A value of st.secrets is [kind |-> "num", val |-> n], n in the unit of
\* the default of its key, or [kind |-> "str"] for a text.
secrets == [k \in {} |-> [kind |-> "num", val |-> 0]]

\* Lines 32-41: a missing key raises inside the try, and all six defaults
\* are used; the values found are taken as they are.
coefficients_of(config) ==
    IF DOMAIN default_coefficients \subseteq DOMAIN config
    THEN [k \in DOMAIN default_coefficients |-> config[k]]
    ELSE [k \in DOMAIN default_coefficients |->
             [kind |-> "num", val |-> default_coefficients[k]]]

coefficients == coefficients_of(secrets)

\* Lines 43-46 on numbers.  The nutrients are in milligrams, the result in
\* hundredths of a gram: total_poop is held in units of 10^-7 g and
\* rounded to 0.1 g.
poop_of(k, protein, fat, carbs, fiber) ==
    LET solid_waste == protein * k.P_RATIO + fat * k.F_RATIO
                           + carbs * k.C_RATIO + fiber * k.FIBER_RATIO
        total_poop == (solid_waste * k.WATER_FACTOR) * k.BAC_FACTOR
        q == total_poop \div 1000000
        r == total_poop % 1000000
    IN  IF r > 500000 \/ (r = 500000 /\ q % 2 = 1)
        THEN (q + 1) * 10 ELSE q * 10

\* Lines 31-46 under the configuration config: the product of a float and
\* a text raises TypeError, outside the try.
calculate_with(config, protein, fat, carbs, fiber) ==
    LET k == coefficients_of(config)
    IN  IF \E key \in DOMAIN k : k[key].kind # "num"
        THEN [raised |-> TRUE]
        ELSE [raised |-> FALSE,
              value |-> poop_of([key \in DOMAIN k |-> k[key].val],
                                protein, fat, carbs, fiber)]

\* calculate_poop_amount as the application calls it.
calculate_poop_amount(protein, fat, carbs, fiber) ==
    calculate_with(secrets, protein, fat, carbs, fiber).value

\* food_db.csv is not part of the repository: one row stands for it.
food_db ==
    [menu \in {"rice"} |-> [protein |-> 3, fat |-> 0, carbs |-> 28, fiber |-> 0]]

\* Lines 319-324: the row of the menu, or the default profile.
nutrients(name) ==
    IF name \in DOMAIN food_db THEN food_db[name]
    ELSE [protein |-> 5, fat |-> 5, carbs |-> 20, fiber |-> 2]

\* Line 330: my_share_weight in tenths of a gram; total_w is in grams and
\* eat_ratio in tenths.  The inputs are chosen for the division to be exact.
my_share_weight(total_w, eat_ratio, num_people) ==
    (total_w * eat_ratio) \div num_people

\* Lines 335-341: the predicted excretion of a share.
share_poop(name, share) ==
    LET nut == nutrients(name)
    IN  calculate_poop_amount(nut.protein * share, nut.fat * share,
                              nut.carbs * share, nut.fiber * share)

-----------------------------------------------------------------------------
(* estimate_transit_hours *)

window_days == 3
max_hours == 72
min_samples == 3

\* The loops of lines 144-153: the parsed dates of the entries kept.
RECURSIVE filter_recent(_, _)
filter_recent(log, cutoff) ==
    IF log = <<>> THEN <<>>
    ELSE LET dt == parse_dt(Head(log).date)
             rest == filter_recent(Tail(log), cutoff)
         IN  IF dt # None /\ dt >= cutoff THEN <<dt>> \o rest ELSE rest

\* list.sort(key=...) on the "_dt" values: insertion into a sorted list.
RECURSIVE insert_sorted(_, _)
insert_sorted(x, s) ==
    IF s = <<>> THEN <<x>>
    ELSE IF x < Head(s) THEN <<x>> \o s
    ELSE <<Head(s)>> \o insert_sorted(x, Tail(s))

RECURSIVE sort_dt(_)
sort_dt(s) ==
    IF s = <<>> THEN <<>>
    ELSE LET rest == sort_dt(SubSeq(s, 1, Len(s) - 1))
         IN  \* the last element goes after its equals: the sort is stable
             insert_sorted(s[Len(s)], rest)

\* A scan that does not stop at the first elimination at or after the meal.
RECURSIVE scan_poops_no_break(_, _, _)
scan_poops_no_break(mt, poops_f, maxh) ==
    IF poops_f = <<>> THEN <<>>
    ELSE LET pt == Head(poops_f)
             rest == scan_poops_no_break(mt, Tail(poops_f), maxh)
         IN  IF pt >= mt /\ 0 <= pt - mt /\ pt - mt <= maxh * Hour
             THEN <<pt - mt>> \o rest
             ELSE rest

\* The inner loop of lines 162-168 for one meal: the sample appended for
\* it, as a sequence of zero or one elapsed times (seconds).
RECURSIVE scan_poops(_, _, _)
scan_poops(mt, poops_f, maxh) ==
    IF poops_f = <<>> THEN <<>>
    ELSE LET pt == Head(poops_f)
         IN  IF pt >= mt
             THEN IF 0 <= pt - mt /\ pt - mt <= maxh * Hour
                  THEN <<pt - mt>>
                  ELSE <<>>
             ELSE scan_poops(mt, Tail(poops_f), maxh)

\* The outer loop of lines 159-168.
RECURSIVE collect_deltas(_, _, _)
collect_deltas(meals_f, poops_f, maxh) ==
    IF meals_f = <<>> THEN <<>>
    ELSE scan_poops(Head(meals_f), poops_f, maxh)
             \o collect_deltas(Tail(meals_f), poops_f, maxh)

\* The middle of the data as collected, without sorting them.
median_unsorted(data) ==
    LET n == Len(data)
    IN  IF n % 2 = 1 THEN data[(n + 1) \div 2]
        ELSE (data[n \div 2] + data[n \div 2 + 1]) \div 2

\* statistics.median: the middle of the sorted data, the mean of the two
\* middle values when their number is even.  The samples are whole
\* minutes, so the mean of two of them is a whole number of seconds.
median(data) ==
    LET s == sort_dt(data)
        n == Len(s)
    IN  IF n % 2 = 1 THEN s[(n + 1) \div 2]
        ELSE (s[n \div 2] + s[n \div 2 + 1]) \div 2

\* Lines 143-155 and 159-168: the samples of the filtered, sorted lists.
transit_deltas(meals, poops, now) ==
    LET cutoff == now - window_days * Day
        meals_f == sort_dt(filter_recent(meals, cutoff))
        poops_f == sort_dt(filter_recent(poops, cutoff))
    IN  collect_deltas(meals_f, poops_f, max_hours)

estimate_transit_hours(meals, poops, now) ==
    LET cutoff == now - window_days * Day
        meals_f == sort_dt(filter_recent(meals, cutoff))
        poops_f == sort_dt(filter_recent(poops, cutoff))
        deltas == transit_deltas(meals, poops, now)
        stats(n) == [meals |-> Len(meals_f), poops |-> Len(poops_f), samples |-> n]
    IN  IF meals_f = <<>> \/ poops_f = <<>>
        THEN [median |-> None, stats |-> stats(0)]
        ELSE IF Len(deltas) < min_samples
        THEN [median |-> None, stats |-> stats(Len(deltas))]
        ELSE [median |-> median(deltas), stats |-> stats(Len(deltas))]

-----------------------------------------------------------------------------
(* The store: load_data, save_data and the user record *)

Users == {"A", "B"}

\* {"users": {}}
no_users == [u \in {} |-> 0]

\* Lines 51-66: the users of a file that parses; none when the file is
\* missing or json.load raises JSONDecodeError.
load_data(f) == IF f.kind = "ok" THEN f.users ELSE no_users

\* Lines 58-63: a file that does not parse is moved to a backup path.
file_after_load(f) ==
    IF f.kind = "corrupt" THEN [kind |-> "absent", users |-> no_users] ELSE f

\* Lines 68-70.
save_data(data) == [kind |-> "ok", users |-> data]

\* Lines 193-201: the record of a user the file does not hold yet.
new_user_data(t) ==
    [last_poop |-> format_dt(t), meals_log |-> <<>>,
     current_poop_stock |-> 0, poop_log |-> <<>>]

\* Lines 189-201: data, with the record of user_name created if missing.
load_for_user(f, user_name, t) ==
    LET data == load_data(f)
    IN  IF user_name \in DOMAIN data THEN data
        ELSE [u \in DOMAIN data \cup {user_name} |->
                 IF u = user_name THEN new_user_data(t) ELSE data[u]]

\* data["users"][user_name] = user_data
with_user_data(data, user_name, user_data) ==
    [data EXCEPT ![user_name] = user_data]

-----------------------------------------------------------------------------
(* The prediction of the next elimination *)

\* Lines 133-139.
RECURSIVE get_latest_meal_dt(_)
get_latest_meal_dt(meals) ==
    IF meals = <<>> THEN None
    ELSE LET dt == parse_dt(meals[Len(meals)].date)
             rest == get_latest_meal_dt(SubSeq(meals, 1, Len(meals) - 1))
         IN  IF dt # None /\ dt > rest THEN dt ELSE rest

\* Lines 205-209: a median of 0.0 hours is falsy, as None is.
next_pred_dt(user_data, t) ==
    LET transit_hours ==
            estimate_transit_hours(user_data.meals_log, user_data.poop_log, t).median
        latest_meal_dt == get_latest_meal_dt(user_data.meals_log)
    IN  IF transit_hours # None /\ transit_hours # 0 /\ latest_meal_dt # None
        THEN latest_meal_dt + transit_hours
        ELSE None

\* int(x / 60): the quotient truncated towards zero.
int_div(x, d) == IF x >= 0 THEN x \div d ELSE -((-x) \div d)

\* Lines 386-393, 417-424, 443-450: the entry of an elimination at the
\* instant at, of amount hundredths of a gram, given the prediction pred.
poop_entry(at, amount, pred) ==
    IF pred # None
    THEN [date |-> format_dt(at), amount |-> round_1(amount),
          predicted |-> format_dt(pred),
          error_min |-> int_div(at - pred, Minute)]
    ELSE [date |-> format_dt(at), amount |-> round_1(amount)]

-----------------------------------------------------------------------------
(* The handlers, as changes of user_data *)

\* A meal whose predicted excretion is not added to the stock.
save_meal_no_stock(user_data, res, eat_datetime, num_people, eat_ratio) ==
    LET share == my_share_weight(res.total_weight_g, eat_ratio, num_people)
        log == [date |-> format_dt(eat_datetime),
                food |-> <<res.food_name, num_people>>,
                weight |-> round_1(share * 10),
                poop |-> share_poop(res.food_name, share)]
    IN  [user_data EXCEPT !.meals_log = Append(@, log)]

\* Lines 353-360.
save_meal(user_data, res, eat_datetime, num_people, eat_ratio) ==
    LET share == my_share_weight(res.total_weight_g, eat_ratio, num_people)
        poop == share_poop(res.food_name, share)
        log == [date |-> format_dt(eat_datetime),
                food |-> <<res.food_name, num_people>>,
                weight |-> round_1(share * 10),
                poop |-> poop]
    IN  [user_data EXCEPT !.meals_log = Append(@, log),
                          !.current_poop_stock = @ + poop]

\* A quick record that logs the amount and leaves the stock as it is.
quick_record_keeping(user_data, t) ==
    [user_data EXCEPT !.poop_log = Append(@, poop_entry(t, user_data.current_poop_stock,
                                                        next_pred_dt(user_data, t))),
                      !.last_poop = format_dt(t)]

\* Lines 384-397.
quick_record(user_data, t) ==
    LET dump_amount == user_data.current_poop_stock
        entry == poop_entry(t, dump_amount, next_pred_dt(user_data, t))
    IN  [user_data EXCEPT !.poop_log = Append(@, entry),
                          !.current_poop_stock = 0,
                          !.last_poop = format_dt(t)]

\* A subtraction that is not floored at zero.
manual_stock_unclamped(stock, dump_amount) == round_1(stock - dump_amount)

\* Lines 428-431.
manual_stock(stock, dump_amount) ==
    IF dump_amount >= stock THEN 0 ELSE round_1(stock - dump_amount)

\* Lines 415-433.
manual_record(user_data, t, poop_datetime, poop_amount) ==
    LET entry == poop_entry(poop_datetime, poop_amount, next_pred_dt(user_data, t))
    IN  [user_data EXCEPT !.poop_log = Append(@, entry),
                          !.current_poop_stock = manual_stock(@, poop_amount),
                          !.last_poop = format_dt(poop_datetime)]

\* A reset of the stock that clears the meal history with it.
empty_all_purging(user_data, t) ==
    [user_data EXCEPT !.meals_log = <<>>,
                      !.poop_log = <<poop_entry(t, user_data.current_poop_stock,
                                                next_pred_dt(user_data, t))>>,
                      !.current_poop_stock = 0,
                      !.last_poop = format_dt(t)]

\* Lines 441-453.
empty_all(user_data, t) ==
    LET dump_amount == user_data.current_poop_stock
        entry == poop_entry(t, dump_amount, next_pred_dt(user_data, t))
    IN  [user_data EXCEPT !.poop_log = Append(@, entry),
                          !.current_poop_stock = 0,
                          !.last_poop = format_dt(t)]

-----------------------------------------------------------------------------
(* The recognition result and st.session_state *)

\* st.session_state is a dictionary: a function on the keys it holds.
no_session == [k \in {} |-> 0]

pop(state, key) == [k \in DOMAIN state \ {key} |-> state[k]]

put(state, key, value) ==
    [k \in DOMAIN state \cup {key} |-> IF k = key THEN value ELSE state[k]]

\* A value of the recognizer's JSON: [kind |-> "absent"] for a key the
\* object does not hold, "null", "bool", "num" (val an integer number of
\* grams), "nan" for the number NaN, "str".

\* str(raw.get("food_name", "")), line 113: null becomes the text "None",
\* a number its decimal text.
str_of(value) ==
    CASE value.kind = "absent" -> ""
      [] value.kind = "null" -> "None"
      [] value.kind = "num" /\ value.val = 3 -> "3"
      [] value.kind = "str" -> value.val
      [] OTHER -> "?"

\* str.strip() on the texts that occur.
strip(text) ==
    CASE text = " rice " -> "rice"
      [] text = "  " -> ""
      [] text = " 150 " -> "150"
      [] OTHER -> text

\* str.replace("g", "") on the texts that occur.
without_g(text) ==
    CASE text = "300g" -> "300"
      [] text = " 150 g " -> " 150 "
      [] text = "-5g" -> "-5"
      [] OTHER -> text

\* float(text): the number, NaN, or the ValueError raised.
float_of_text(text) ==
    CASE text = "300" -> [kind |-> "num", val |-> 300]
      [] text = "150" -> [kind |-> "num", val |-> 150]
      [] text = "0" -> [kind |-> "num", val |-> 0]
      [] text = "-5" -> [kind |-> "num", val |-> -5]
      [] text = "NaN" -> [kind |-> "nan"]
      [] OTHER -> [kind |-> "raise"]

\* Lines 115-120: float(total) of a number, of True or False, of a string
\* once its "g" is removed and it is stripped; None raises.
to_float(total) ==
    CASE total.kind = "num" -> [kind |-> "num", val |-> total.val]
      [] total.kind = "nan" -> [kind |-> "nan"]
      [] total.kind = "bool" -> [kind |-> "num", val |-> IF total.val THEN 1 ELSE 0]
      [] total.kind = "str" -> float_of_text(strip(without_g(total.val)))
      [] OTHER -> [kind |-> "raise"]

\* total <= 0, False for NaN.
not_positive(total) == total.kind = "num" /\ total.val <= 0

\* The weight of a record: grams, or "nan".
weight_of(total) == IF total.kind = "num" THEN total.val ELSE "nan"

\* Lines 110-125.
normalize_ai_result(raw) ==
    IF raw.kind # "dict"
    THEN [ok |-> FALSE, err |-> "bad format"]
    ELSE LET name == strip(str_of(raw.food_name))
             total == to_float(raw.total_weight_g)
         IN  IF total.kind = "raise"
             THEN [ok |-> FALSE, err |-> "weight not a number"]
             ELSE IF name = "" THEN [ok |-> FALSE, err |-> "no menu name"]
             ELSE IF not_positive(total)
             THEN [ok |-> FALSE, err |-> "weight not positive"]
             ELSE [ok |-> TRUE,
                   res |-> [food_name |-> name,
                            total_weight_g |-> weight_of(total)]]

\* Lines 86-108: one generate_content call; any exception, a text that is
\* not JSON included, gives None at once.
analyze_food_image(response) == [result |-> response, calls |-> 1]

\* Lines 249-252: a new upload discards the result of the previous one.
upload(state, file_hash) ==
    IF "analysis_file_hash" \in DOMAIN state /\ state.analysis_file_hash = file_hash
    THEN state
    ELSE put(pop(pop(state, "analysis_result"), "analysis_error"),
             "analysis_file_hash", file_hash)

\* Lines 268-278: raw is what analyze_food_image returned; None and {} are
\* falsy.
analyze(state, raw) ==
    IF raw.kind \in {"none", "empty dict"}
    THEN pop(put(state, "analysis_error", "no result"), "analysis_result")
    ELSE LET n == normalize_ai_result(raw)
         IN  IF n.ok
             THEN pop(put(state, "analysis_result", n.res), "analysis_error")
             ELSE put(state, "analysis_error", n.err)

\* Lines 286-295: the button that applies a menu name and a weight typed
\* in after a failed analysis; a blank name changes nothing.
manual_entry(state, manual_name, manual_weight) ==
    IF strip(manual_name) # ""
    THEN pop(put(state, "analysis_result",
                 [food_name |-> strip(manual_name),
                  total_weight_g |-> manual_weight]),
             "analysis_error")
    ELSE state

\* Lines 306-316: the button that applies an edited name and weight.
edit(state, edit_name, edit_weight) ==
    IF strip(edit_name) # ""
    THEN put(state, "analysis_result",
             [food_name |-> strip(edit_name), total_weight_g |-> edit_weight])
    ELSE state

\* A save that leaves the result in the session.
consume_kept(state) == state

\* Line 363: del st.session_state['analysis_result'].
consume(state) == pop(state, "analysis_result")

-----------------------------------------------------------------------------
(* The application, one script run at a time *)

MaxSaves == 3

Images == {"img1"}
RawResponses ==
    {[kind |-> "none"],
     [kind |-> "dict", food_name |-> [kind |-> "str", val |-> "stew"],
      total_weight_g |-> [kind |-> "num", val |-> 194]],
     [kind |-> "dict", food_name |-> [kind |-> "str", val |-> " rice "],
      total_weight_g |-> [kind |-> "str", val |-> "300g"]],
     [kind |-> "dict", food_name |-> [kind |-> "str", val |-> "stew"],
      total_weight_g |-> [kind |-> "str", val |-> "abc"]]}
TypedNames == {" rice ", "  "}
TypedWeights == {300}
Portions ==
    {[num_people |-> 1, eat_ratio |-> 10],
     [num_people |-> 2, eat_ratio |-> 5]}
DateChoices == {8 * Hour, 12 * Hour}
DumpAmounts == {1234, 6000}
Instants == {10 * Hour + 30, 14 * Hour + 45}

\* The record of a user as a reader of the file sees it.
stored(f, u) ==
    IF u \in DOMAIN load_data(f) THEN load_data(f)[u]
    ELSE [meals_log |-> <<>>, current_poop_stock |-> 0, poop_log |-> <<>>]

\* s is t, or t with entries appended at its end.
Extends(s, t) == Len(s) >= Len(t) /\ SubSeq(s, 1, Len(t)) = t

\* The history after user u saved user_data: the logs saved, unless they
\* no longer hold the entries saved before.
saved(h, u, user_data) ==
    IF /\ Extends(user_data.meals_log, h[u].meals_log)
       /\ Extends(user_data.poop_log, h[u].poop_log)
    THEN [h EXCEPT ![u] = [meals_log |-> user_data.meals_log,
                           poop_log |-> user_data.poop_log]]
    ELSE h

\* No script run in progress.
idle == [pc |-> "idle"]

\* The user whose session runs, and a record another user left in the file.
Actors == {"A"}

other_user_data ==
    [last_poop |-> 8 * Hour,
     meals_log |-> <<[date |-> 8 * Hour, food |-> <<"stew", 1>>,
                      weight |-> 19400, poop |-> 4000]>>,
     current_poop_stock |-> 4000,
     poop_log |-> <<>>]

AppInit ==
    /\ file = save_data([u \in {"B"} |-> other_user_data])
    /\ clock = 10 * Hour + 30
    /\ session = [u \in Users |-> no_session]
    /\ saves = 0
    /\ run = [u \in Users |-> idle]
    /\ attempts = [u \in Users |-> 0]
    /\ history = [u \in Users |-> [meals_log |-> stored(file, u).meals_log,
                                    poop_log |-> stored(file, u).poop_log]]

EstIdle ==
    /\ est_meals = <<>>
    /\ est_poops = <<>>
    /\ est_now = 0
    /\ est_out = estimate_transit_hours(<<>>, <<>>, 0)

\* normalize_ai_result and calculate_poop_amount on the arguments the
\* application gives them first.
FnIdle ==
    /\ norm_raw = [kind |-> "none"]
    /\ norm_out = normalize_ai_result(norm_raw)
    /\ cfg_in = [secrets |-> secrets, nut |-> <<0, 0, 0, 0>>]
    /\ cfg_out = calculate_with(secrets, 0, 0, 0, 0)

Tick ==
    /\ \E t \in Instants : t > clock /\ clock' = t
    /\ UNCHANGED <<file, session, history, saves, run, attempts, est_vars, fn_vars>>

\* Lines 246-252: a run with a file in the uploader.
RunUpload(u) ==
    /\ \E h \in Images : session' = [session EXCEPT ![u] = upload(@, h)]
    /\ session' # session
    /\ file' = file_after_load(file)
    /\ UNCHANGED <<clock, history, saves, run, attempts, est_vars, fn_vars>>

\* Lines 266-278: the analysis button.
RunAnalyze(u) ==
    /\ "analysis_file_hash" \in DOMAIN session[u]
    /\ \E response \in RawResponses :
          LET result == analyze_food_image(response)
          IN  /\ session' = [session EXCEPT ![u] = analyze(@, result.result)]
              /\ attempts' = [attempts EXCEPT ![u] = result.calls]
    /\ file' = file_after_load(file)
    /\ UNCHANGED <<clock, history, saves, run, est_vars, fn_vars>>

\* Lines 281-295: the manual entry shown with an analysis error.
RunManualEntry(u) ==
    /\ "analysis_file_hash" \in DOMAIN session[u]
    /\ "analysis_error" \in DOMAIN session[u]
    /\ \E n \in TypedNames, w \in TypedWeights :
          session' = [session EXCEPT ![u] = manual_entry(@, n, w)]
    /\ file' = file_after_load(file)
    /\ UNCHANGED <<clock, history, saves, run, attempts, est_vars, fn_vars>>

\* Lines 297-316: the edit of the result shown.
RunEdit(u) ==
    /\ "analysis_file_hash" \in DOMAIN session[u]
    /\ "analysis_result" \in DOMAIN session[u]
    /\ \E n \in TypedNames, w \in TypedWeights :
          session' = [session EXCEPT ![u] = edit(@, n, w)]
    /\ file' = file_after_load(file)
    /\ UNCHANGED <<clock, history, saves, run, attempts, est_vars, fn_vars>>

\* Lines 352-363: the save button of a meal, with the date and time chosen
\* and the portion p.
SaveMealWith(u, d, p) ==
    /\ "analysis_file_hash" \in DOMAIN session[u]
    /\ "analysis_result" \in DOMAIN session[u]
    /\ saves < MaxSaves
    /\ LET data == load_for_user(file, u, clock)
           user_data == save_meal(data[u], session[u].analysis_result, d,
                                  p.num_people, p.eat_ratio)
       IN  /\ file' = save_data(with_user_data(data, u, user_data))
           /\ history' = saved(history, u, user_data)
           /\ saves' = saves + 1
    /\ session' = [session EXCEPT ![u] = consume(@)]
    /\ UNCHANGED <<clock, run, attempts, est_vars, fn_vars>>

RunSaveMeal(u) == \E d \in DateChoices, p \in Portions : SaveMealWith(u, d, p)

\* Lines 383-398: the quick record button.
RunQuickRecord(u) ==
    /\ saves < MaxSaves
    /\ LET data == load_for_user(file, u, clock)
           user_data == quick_record(data[u], clock)
       IN  /\ file' = save_data(with_user_data(data, u, user_data))
           /\ history' = saved(history, u, user_data)
           /\ saves' = saves + 1
    /\ UNCHANGED <<clock, session, run, attempts, est_vars, fn_vars>>

\* Lines 414-434: the button that records an elimination of the amount a
\* at the date and time d.
ManualRecordWith(u, d, a) ==
    /\ saves < MaxSaves
    /\ LET data == load_for_user(file, u, clock)
           user_data == manual_record(data[u], clock, d, a)
       IN  /\ file' = save_data(with_user_data(data, u, user_data))
           /\ history' = saved(history, u, user_data)
           /\ saves' = saves + 1
    /\ UNCHANGED <<clock, session, run, attempts, est_vars, fn_vars>>

RunManualRecord(u) ==
    \E d \in DateChoices, a \in DumpAmounts : ManualRecordWith(u, d, a)

\* Lines 440-454: the button that empties the stock.
RunEmptyAll(u) ==
    /\ saves < MaxSaves
    /\ LET data == load_for_user(file, u, clock)
           user_data == empty_all(data[u], clock)
       IN  /\ file' = save_data(with_user_data(data, u, user_data))
           /\ history' = saved(history, u, user_data)
           /\ saves' = saves + 1
    /\ UNCHANGED <<clock, session, run, attempts, est_vars, fn_vars>>

Init == AppInit /\ EstIdle /\ FnIdle

\* A save_data call (lines 69-70) during which the server stops:
\* open(..., 'w') has emptied the file and json.dump has not completed.
\* The sessions of the stopped server are gone.
Crash ==
    /\ saves < MaxSaves
    /\ file.kind = "ok"
    /\ file' = [kind |-> "corrupt", users |-> no_users]
    /\ session' = [u \in Users |-> no_session]
    /\ saves' = saves + 1
    /\ UNCHANGED <<clock, history, run, attempts, est_vars, fn_vars>>

Upload == \E u \in Actors : RunUpload(u)
Analyze == \E u \in Actors : RunAnalyze(u)
ManualEntry == \E u \in Actors : RunManualEntry(u)
Edit == \E u \in Actors : RunEdit(u)
SaveMeal == \E u \in Actors : RunSaveMeal(u)
QuickRecord == \E u \in Actors : RunQuickRecord(u)
ManualRecord == \E u \in Actors : RunManualRecord(u)
EmptyAll == \E u \in Actors : RunEmptyAll(u)

Next ==
    \/ Tick
    \/ Upload
    \/ Analyze
    \/ ManualEntry
    \/ Edit
    \/ SaveMeal
    \/ QuickRecord
    \/ ManualRecord
    \/ EmptyAll
    \/ Crash

Spec == Init /\ [][Next]_vars

-----------------------------------------------------------------------------
(* The application with the script runs of two sessions interleaved *)

\* Streamlit runs the script of each session in a thread of its own: the
\* steps of a run are its load (line 189), its handler and the two halves
\* of save_data, open (line 69) and json.dump with the close (line 70).

MaxConcSaves == 2

ConcDates == {12 * Hour}
ConcAmounts == {6000}
ConcPortions == {[num_people |-> 1, eat_ratio |-> 10]}
ConcResponses ==
    {[kind |-> "dict", food_name |-> [kind |-> "str", val |-> "stew"],
      total_weight_g |-> [kind |-> "num", val |-> 194]]}

ConcInit ==
    /\ file = [kind |-> "absent", users |-> no_users]
    /\ clock = 10 * Hour + 30
    /\ session = [u \in Users |-> no_session]
    /\ saves = 0
    /\ run = [u \in Users |-> idle]
    /\ attempts = [u \in Users |-> 0]
    /\ history = [u \in Users |-> [meals_log |-> <<>>, poop_log |-> <<>>]]
    /\ EstIdle
    /\ FnIdle

\* Lines 189-201.  A file found unparseable is moved away (line 61): the
\* runs that are writing it go on writing the moved file.
Begin(u) ==
    /\ run[u].pc = "idle"
    /\ file' = file_after_load(file)
    /\ run' = [v \in Users |->
                  IF v = u
                  THEN [pc |-> "loaded", data |-> load_for_user(file, u, clock)]
                  ELSE IF file.kind = "corrupt" /\ run[v].pc = "writing"
                  THEN [run[v] EXCEPT !.moved = TRUE]
                  ELSE run[v]]
    /\ UNCHANGED <<clock, session, history, saves, attempts, est_vars, fn_vars>>

\* Lines 246-252, in a run that ends without a save.
ConcUpload(u) ==
    /\ run[u].pc = "loaded"
    /\ \E h \in Images : session' = [session EXCEPT ![u] = upload(@, h)]
    /\ run' = [run EXCEPT ![u] = idle]
    /\ UNCHANGED <<file, clock, history, saves, attempts, est_vars, fn_vars>>

\* Lines 266-278, in a run that ends without a save.
ConcAnalyze(u) ==
    /\ run[u].pc = "loaded"
    /\ "analysis_file_hash" \in DOMAIN session[u]
    /\ \E response \in ConcResponses :
          LET result == analyze_food_image(response)
          IN  /\ session' = [session EXCEPT ![u] = analyze(@, result.result)]
              /\ attempts' = [attempts EXCEPT ![u] = result.calls]
    /\ run' = [run EXCEPT ![u] = idle]
    /\ UNCHANGED <<file, clock, history, saves, est_vars, fn_vars>>

\* The handler of a button up to its save_data call: user_data is changed
\* in the memory of the run.
Recorded(u, user_data, op) ==
    /\ run' = [run EXCEPT ![u] =
                  [pc |-> "recorded", op |-> op,
                   data |-> with_user_data(run[u].data, u, user_data)]]
    /\ UNCHANGED <<file, clock, session, history, saves, attempts, est_vars, fn_vars>>

\* Lines 352-360.
ConcSaveMeal(u) ==
    /\ run[u].pc = "loaded"
    /\ saves < MaxConcSaves
    /\ "analysis_file_hash" \in DOMAIN session[u]
    /\ "analysis_result" \in DOMAIN session[u]
    /\ \E d \in ConcDates, p \in ConcPortions :
          Recorded(u, save_meal(run[u].data[u], session[u].analysis_result, d,
                                p.num_people, p.eat_ratio), "meal")

\* Lines 383-397.
ConcQuickRecord(u) ==
    /\ run[u].pc = "loaded"
    /\ saves < MaxConcSaves
    /\ Recorded(u, quick_record(run[u].data[u], clock), "quick")

\* Lines 414-433.
ConcManualRecord(u) ==
    /\ run[u].pc = "loaded"
    /\ saves < MaxConcSaves
    /\ \E d \in ConcDates, a \in ConcAmounts :
          Recorded(u, manual_record(run[u].data[u], clock, d, a), "manual")

\* Lines 440-453.
ConcEmptyAll(u) ==
    /\ run[u].pc = "loaded"
    /\ saves < MaxConcSaves
    /\ Recorded(u, empty_all(run[u].data[u], clock), "empty")

\* Line 69: open(DATA_FILE, 'w') empties the file, or creates it.
SaveOpen(u) ==
    /\ run[u].pc = "recorded"
    /\ file' = [kind |-> "corrupt", users |-> no_users]
    /\ run' = [run EXCEPT ![u] =
                  [pc |-> "writing", op |-> run[u].op, data |-> run[u].data,
                   moved |-> FALSE]]
    /\ saves' = saves + 1
    /\ UNCHANGED <<clock, session, history, attempts, est_vars, fn_vars>>

\* Line 70 and the close, then line 363 after a meal.  The document goes
\* to the file opened: to the backup if the file was moved meanwhile; over
\* the document another run wrote meanwhile, which leaves this run's
\* document or, when it is the shorter one, text that does not parse.
SaveWrite(u) ==
    /\ run[u].pc = "writing"
    /\ \/ /\ run[u].moved
          /\ file' = file
       \/ /\ ~run[u].moved
          /\ file' = save_data(run[u].data)
       \/ /\ ~run[u].moved
          /\ file.kind = "ok"
          /\ file' = [kind |-> "corrupt", users |-> no_users]
    /\ history' = saved(history, u, run[u].data[u])
    /\ session' = [session EXCEPT ![u] =
                      IF run[u].op = "meal" THEN consume(@) ELSE @]
    /\ run' = [run EXCEPT ![u] = idle]
    /\ UNCHANGED <<clock, saves, attempts, est_vars, fn_vars>>

ConcBegin == \E u \in Users : Begin(u)
ConcUploads == \E u \in Users : ConcUpload(u)
ConcAnalyzes == \E u \in Users : ConcAnalyze(u)
ConcSaveMeals == \E u \in Users : ConcSaveMeal(u)
ConcQuickRecords == \E u \in Users : ConcQuickRecord(u)
ConcManualRecords == \E u \in Users : ConcManualRecord(u)
ConcEmptyAlls == \E u \in Users : ConcEmptyAll(u)
ConcSaveOpens == \E u \in Users : SaveOpen(u)
ConcSaveWrites == \E u \in Users : SaveWrite(u)

ConcNext ==
    \/ ConcBegin
    \/ ConcUploads
    \/ ConcAnalyzes
    \/ ConcSaveMeals
    \/ ConcQuickRecords
    \/ ConcManualRecords
    \/ ConcEmptyAlls
    \/ ConcSaveOpens
    \/ ConcSaveWrites

SpecConc == ConcInit /\ [][ConcNext]_vars

\* The logs of every user still start with the entries of the history.
KeepsHistory(f) ==
    \A u \in Users :
        /\ Extends(stored(f, u).meals_log, history[u].meals_log)
        /\ Extends(stored(f, u).poop_log, history[u].poop_log)

\* C6: once the runs of both sessions have ended, the file holds for each
\* user the entries that user has saved: no run of the other user removed
\* or lost them.
C6_Isolation ==
    (\A u \in Users : run[u].pc = "idle") => KeepsHistory(file)

-----------------------------------------------------------------------------
(* The ledger and the logs, one script run at a time *)

\* The record a run of user u starts from (lines 189-201).
before(u) == load_for_user(file, u, clock)[u]

\* C1: the stored stock of every user is never negative.
C1_StockNonNegative ==
    \A u \in DOMAIN load_data(file) :
        load_data(file)[u].current_poop_stock >= 0

\* A manual elimination of more than the stock has been recorded by A.
C1_Witness ==
    /\ file.kind = "ok" /\ "A" \in DOMAIN file.users
    /\ Len(file.users["A"].meals_log) = 1
    /\ file.users["A"].meals_log[1].poop = 4000
    /\ Len(file.users["A"].poop_log) = 1
    /\ file.users["A"].poop_log[1].amount = 6000
    /\ file.users["A"].current_poop_stock = 0

\* The stocks a replay from zero can end with: the meals ms and the
\* eliminations ps, each in date order, merged by date; events of equal
\* date are taken in either order.
RECURSIVE Replays(_, _, _)
Replays(ms, ps, stock) ==
    LET eat == Replays(Tail(ms), ps, stock + Head(ms).poop)
        go == Replays(ms, Tail(ps),
                      IF Head(ps).amount >= stock THEN 0
                      ELSE stock - Head(ps).amount)
    IN  IF ms = <<>> /\ ps = <<>> THEN {stock}
        ELSE IF ps = <<>> THEN eat
        ELSE IF ms = <<>> THEN go
        ELSE IF Head(ms).date < Head(ps).date THEN eat
        ELSE IF Head(ps).date < Head(ms).date THEN go
        ELSE eat \cup go

\* The entries of a log in date order, entries of equal date in log order.
RECURSIVE ByDate(_)
ByDate(log) ==
    IF log = <<>> THEN <<>>
    ELSE LET i == CHOOSE i \in DOMAIN log :
                     \A j \in DOMAIN log :
                         log[i].date < log[j].date
                             \/ (log[i].date = log[j].date /\ i <= j)
             rest == [k \in 1..(Len(log) - 1) |->
                         IF k < i THEN log[k] ELSE log[k + 1]]
         IN  <<log[i]>> \o ByDate(rest)

\* C2: the stored stock is the result of replaying the user's meals_log
\* and poop_log from zero in the order of their timestamps.
C2_Reconstructable ==
    \A u \in DOMAIN load_data(file) :
        LET r == load_data(file)[u]
        IN  r.current_poop_stock
                \in Replays(ByDate(r.meals_log), ByDate(r.poop_log), 0)

IsMultipleOfTenth(x) == x % 10 = 0
Distance(x, y) == IF x >= y THEN x - y ELSE y - x
\* r is x rounded to one decimal: the tenth of a gram nearest to x.
IsRoundedTo(r, x) == IsMultipleOfTenth(r) /\ 2 * Distance(r, x) <= 10
Max0(x) == IF x >= 0 THEN x ELSE 0
LastOf(log) == log[Len(log)]

\* C3 as stated: a manual elimination of d leaves the stock max(0, s - d)
\* and logs the amount d as it was requested.
C3_ClampAsStated ==
    [][\A u \in Actors, d \in DateChoices, a \in DumpAmounts :
          ManualRecordWith(u, d, a) =>
              /\ file'.users[u].current_poop_stock
                     = Max0(before(u).current_poop_stock - a)
              /\ LastOf(file'.users[u].poop_log).amount = a]_vars

\* C3 amended: a manual elimination of d leaves the stock 0 when d >= s
\* and s - d rounded to one decimal otherwise, never a negative stock, and
\* appends one entry whose amount is d rounded to one decimal.
C3_Clamp ==
    [][\A u \in Actors, d \in DateChoices, a \in DumpAmounts :
          ManualRecordWith(u, d, a) =>
              LET s == before(u).current_poop_stock
                  s2 == file'.users[u].current_poop_stock
              IN  /\ s2 >= 0
                  /\ a >= s => s2 = 0
                  /\ a < s => IsRoundedTo(s2, s - a)
                  /\ Len(file'.users[u].poop_log) = Len(before(u).poop_log) + 1
                  /\ IsRoundedTo(LastOf(file'.users[u].poop_log).amount, a)]_vars

\* The stock was 40 g and an elimination of 60 g is recorded.
C3_Witness ==
    /\ file.kind = "ok" /\ "A" \in DOMAIN file.users
    /\ saves = 2
    /\ Len(file.users["A"].meals_log) = 1
    /\ file.users["A"].meals_log[1].poop = 4000
    /\ Len(file.users["A"].poop_log) = 1
    /\ file.users["A"].poop_log[1].amount = 6000
    /\ file.users["A"].current_poop_stock = 0
    /\ history["A"].poop_log = file.users["A"].poop_log

\* C4: saving a meal appends one entry to the user's meals_log, adds that
\* entry's predicted excretion to the stock, and leaves poop_log and
\* last_poop as they were; the file holds both changes or neither.
C4_MealSaveUnit ==
    [][\A u \in Actors, d \in DateChoices, p \in Portions :
          SaveMealWith(u, d, p) =>
              LET old == before(u)
                  new == file'.users[u]
              IN  /\ file'.kind = "ok"
                  /\ Len(new.meals_log) = Len(old.meals_log) + 1
                  /\ SubSeq(new.meals_log, 1, Len(old.meals_log)) = old.meals_log
                  /\ new.current_poop_stock
                         = old.current_poop_stock + LastOf(new.meals_log).poop
                  /\ new.poop_log = old.poop_log
                  /\ new.last_poop = old.last_poop]_vars

\* A meal of 40 g predicted excretion is in the file with its increment.
C4_Witness ==
    /\ file.kind = "ok" /\ "A" \in DOMAIN file.users
    /\ saves = 1
    /\ Len(file.users["A"].meals_log) = 1
    /\ file.users["A"].meals_log[1].poop = 4000
    /\ file.users["A"].current_poop_stock = 4000

\* C5 as stated: whatever the operations, a store load among them, the
\* entries once in a user's meals_log or poop_log are all still there.
C5_AppendOnlyAsStated == file.kind = "ok" => KeepsHistory(file)

\* C5 amended: unless the file is unparseable before or after the step (a
\* load that finds it so moves it to a backup and restarts from an empty
\* store), every step leaves each log of each user with the entries it
\* had, unmodified, new entries at its end; emptying the stock is such a
\* step.
C5_AppendOnly ==
    [][(file.kind # "corrupt" /\ file'.kind # "corrupt") =>
          \A u \in Users :
              /\ Extends(stored(file', u).meals_log, stored(file, u).meals_log)
              /\ Extends(stored(file', u).poop_log, stored(file, u).poop_log)]_vars

\* The stock of A was emptied and the meal that filled it is still logged.
C5_Witness ==
    /\ file.kind = "ok" /\ "A" \in DOMAIN file.users
    /\ Len(file.users["A"].meals_log) = 1
    /\ Len(file.users["A"].poop_log) = 1
    /\ file.users["A"].poop_log[1].amount = file.users["A"].meals_log[1].poop
    /\ file.users["A"].current_poop_stock = 0
    /\ file.users["A"].poop_log[1].date = format_dt(clock)
    /\ stored(file, "B").meals_log = other_user_data.meals_log

\* C13: when the session holds an analysis error, the analysis that set it
\* called the recognizer between 3 and 5 times.
C13_Retry ==
    \A u \in Users :
        "analysis_error" \in DOMAIN session[u] => attempts[u] \in 3..5

\* C17: the quick record and the emptying of the stock leave the stock at
\* 0, append to poop_log one entry whose amount is the stock held before,
\* and leave meals_log as it was.
C17_FullDischarge ==
    [][\A u \in Actors :
          (RunQuickRecord(u) \/ RunEmptyAll(u)) =>
              LET old == before(u)
                  new == file'.users[u]
              IN  /\ new.current_poop_stock = 0
                  /\ Len(new.poop_log) = Len(old.poop_log) + 1
                  /\ SubSeq(new.poop_log, 1, Len(old.poop_log)) = old.poop_log
                  /\ LastOf(new.poop_log).amount = old.current_poop_stock
                  /\ new.meals_log = old.meals_log]_vars

\* A stock of 53.6 g was discharged whole at the instant of the clock.
C17_Witness ==
    /\ file.kind = "ok" /\ "A" \in DOMAIN file.users
    /\ Len(file.users["A"].meals_log) = 1
    /\ file.users["A"].meals_log[1].poop = 5360
    /\ Len(file.users["A"].poop_log) = 1
    /\ file.users["A"].poop_log[1].amount = 5360
    /\ file.users["A"].current_poop_stock = 0
    /\ file.users["A"].last_poop = format_dt(clock)

\* C18: a session never holds analysis_result and analysis_error together,
\* so that no result of an earlier analysis can be saved after an analysis
\* that failed.
C18_ResultOrError ==
    \A u \in Users :
        ~({"analysis_result", "analysis_error"} \subseteq DOMAIN session[u])

\* C19: a step that appends to the meals_log of a user appends one entry,
\* starts in a session that holds an analysis_result and ends in a session
\* that holds none: without a result no meal is saved, and a result is
\* saved once.
C19_SavedOnce ==
    [][\A u \in Actors :
          LET old == before(u).meals_log
              new == stored(file', u).meals_log
          IN  Len(new) > Len(old) =>
                 /\ Len(new) = Len(old) + 1
                 /\ "analysis_result" \in DOMAIN session[u]
                 /\ "analysis_result" \notin DOMAIN session'[u]]_vars

\* A result was saved as the second meal of A and is gone from the
\* session, the uploaded image still being there.
C19_Witness ==
    /\ file.kind = "ok" /\ "A" \in DOMAIN file.users
    /\ Len(file.users["A"].meals_log) = 2
    /\ file.users["A"].meals_log[2].poop = 5360
    /\ "analysis_file_hash" \in DOMAIN session["A"]
    /\ "analysis_result" \notin DOMAIN session["A"]
    /\ "analysis_error" \notin DOMAIN session["A"]

-----------------------------------------------------------------------------
(* The application started on records that already hold a few days' events *)

stew_result == [food_name |-> "stew", total_weight_g |-> 194]

\* A meal of stew saved for the instant d, and an elimination of 40 g
\* recorded by hand for the instant d.
ate(user_data, d) == save_meal(user_data, stew_result, d, 1, 10)
went(user_data, d) == manual_record(user_data, d, d, 4000)

\* Four meals and three eliminations, each 2 h 01 min after a meal: the
\* median is 2 h 01 min and the latest meal is the one of 8:00.
regular_user_data ==
    went(ate(ate(went(ate(went(ate(new_user_data(1 * Hour), 1 * Hour),
                               3 * Hour + Minute),
                          4 * Hour),
                      6 * Hour + Minute),
                 7 * Hour),
             8 * Hour),
         9 * Hour + Minute)

\* Three meals, each with an elimination recorded for the same minute: the
\* median is 0.0 hours.
prompt_user_data ==
    went(ate(went(ate(went(ate(new_user_data(6 * Hour), 6 * Hour),
                           6 * Hour),
                      7 * Hour),
                  7 * Hour),
             8 * Hour),
         8 * Hour)

PredictRecords == {regular_user_data, prompt_user_data}

PredictInit ==
    /\ \/ file = save_data([u \in {"B"} |-> other_user_data])
       \/ \E r \in PredictRecords :
             file = save_data([u \in Users |->
                                  IF u = "A" THEN r ELSE other_user_data])
    /\ clock = 10 * Hour + 30
    /\ session = [u \in Users |-> no_session]
    /\ saves = 0
    /\ run = [u \in Users |-> idle]
    /\ attempts = [u \in Users |-> 0]
    /\ history = [u \in Users |-> [meals_log |-> stored(file, u).meals_log,
                                    poop_log |-> stored(file, u).poop_log]]
    /\ EstIdle
    /\ FnIdle

SpecPredict == PredictInit /\ [][Next]_vars

\* The median estimate_transit_hours returns for a record at the instant t
\* and the latest meal of the record.
median_of(user_data, t) ==
    estimate_transit_hours(user_data.meals_log, user_data.poop_log, t).median

\* C11: a prediction exists exactly when the median is defined (0 hours
\* included) and the user has a latest meal, and it is then the latest meal
\* instant plus the median.
C11_Prediction ==
    \A u \in DOMAIN load_data(file) :
        LET r == load_data(file)[u]
            m == median_of(r, clock)
            l == get_latest_meal_dt(r.meals_log)
        IN  IF m # None /\ l # None
            THEN next_pred_dt(r, clock) = l + m
            ELSE next_pred_dt(r, clock) = None

\* The entry a step appended to the poop_log of u, if it appended one.
Appended(u) ==
    /\ file'.kind = "ok" /\ u \in DOMAIN file'.users
    /\ Len(file'.users[u].poop_log) = Len(before(u).poop_log) + 1

\* C14: an entry appended to poop_log carries predicted and error_min
\* exactly when a prediction existed for the run that appended it, and
\* error_min is then the entry's date minus the entry's predicted instant,
\* in minutes.
C14_ErrorMin ==
    [][\A u \in Actors :
          Appended(u) =>
              LET e == LastOf(file'.users[u].poop_log)
                  pred == next_pred_dt(before(u), clock)
              IN  /\ ("predicted" \in DOMAIN e) = (pred # None)
                  /\ ("error_min" \in DOMAIN e) = (pred # None)
                  /\ pred # None => e.error_min * Minute = e.date - e.predicted]_vars

-----------------------------------------------------------------------------
(* normalize_ai_result on the values a recognizer answer can hold *)

NormNames ==
    {[kind |-> "absent"], [kind |-> "null"], [kind |-> "num", val |-> 3],
     [kind |-> "str", val |-> ""], [kind |-> "str", val |-> "  "],
     [kind |-> "str", val |-> " rice "], [kind |-> "str", val |-> "rice"],
     [kind |-> "str", val |-> "stew"]}

NormWeights ==
    {[kind |-> "absent"], [kind |-> "null"], [kind |-> "nan"],
     [kind |-> "bool", val |-> TRUE],
     [kind |-> "num", val |-> 194], [kind |-> "num", val |-> 0],
     [kind |-> "num", val |-> -5],
     [kind |-> "str", val |-> "300g"], [kind |-> "str", val |-> " 150 g "],
     [kind |-> "str", val |-> "0"], [kind |-> "str", val |-> "-5g"],
     [kind |-> "str", val |-> "NaN"], [kind |-> "str", val |-> "abc"],
     [kind |-> "str", val |-> ""]}

NormInputs ==
    {[kind |-> "none"], [kind |-> "list"], [kind |-> "text"]}
        \cup {[kind |-> "dict", food_name |-> n, total_weight_g |-> w] :
                 n \in NormNames, w \in NormWeights}

NormInit == AppInit /\ EstIdle /\ FnIdle

NormCall ==
    /\ \E raw \in NormInputs :
          /\ norm_raw' = raw
          /\ norm_out' = normalize_ai_result(raw)
    /\ UNCHANGED <<app_vars, est_vars, cfg_in, cfg_out>>

NormNext == NormCall

SpecNormalize == NormInit /\ [][NormNext]_vars

\* The name of a structured object is present and not empty once trimmed:
\* a text, or a number, that is not only white space.
NamePresent(raw) ==
    /\ raw.food_name.kind \in {"str", "num"}
    /\ strip(str_of(raw.food_name)) # ""

\* The name is empty once trimmed: no name, or a text of white space.
NameEmpty(raw) ==
    \/ raw.food_name.kind = "absent"
    \/ raw.food_name.kind = "str" /\ strip(raw.food_name.val) = ""

\* The mass is a number above 0, or a text that is one once its unit
\* suffix is stripped.
MassPositive(raw) ==
    LET w == raw.total_weight_g
        x == IF w.kind = "num" THEN w
             ELSE IF w.kind = "str" THEN float_of_text(strip(without_g(w.val)))
             ELSE [kind |-> "raise"]
    IN  x.kind = "num" /\ x.val > 0

\* C12: a record comes back exactly for a structured object with a name
\* present and a mass that parses to a number above 0, and its name and
\* mass are those of the object; otherwise a non-empty reason comes back.
C12_NormalizeContract ==
    LET valid == /\ norm_raw.kind = "dict"
                 /\ NamePresent(norm_raw)
                 /\ MassPositive(norm_raw)
    IN  /\ norm_out.ok = valid
        /\ norm_out.ok =>
              /\ "err" \notin DOMAIN norm_out
              /\ norm_out.res.total_weight_g \in Nat \ {0}
        /\ ~norm_out.ok => "res" \notin DOMAIN norm_out /\ norm_out.err # ""

\* C15: a structured object whose name is empty once trimmed fails with
\* the missing-name reason, whatever its mass field holds.
C15_MissingName ==
    (norm_raw.kind = "dict" /\ NameEmpty(norm_raw))
        => (~norm_out.ok /\ norm_out.err = "no menu name")

-----------------------------------------------------------------------------
(* calculate_poop_amount on the configurations st.secrets can hold *)

\* For each key: not set, set to a number other than the default, or set
\* to a text.
SecretKinds == {"absent", "num", "str"}

configured ==
    [P_RATIO |-> 2, F_RATIO |-> 2, C_RATIO |-> 3, FIBER_RATIO |-> 10,
     WATER_FACTOR |-> 234, BAC_FACTOR |-> 14]

config_of(kinds) ==
    [k \in {key \in DOMAIN kinds : kinds[key] # "absent"} |->
        IF kinds[k] = "num" THEN [kind |-> "num", val |-> configured[k]]
        ELSE [kind |-> "str"]]

\* Protein, fat, carbohydrate and fibre in milligrams.
NutInputs == {<<10000, 10000, 50000, 10000>>, <<0, 0, 0, 0>>}

CoeffInit == AppInit /\ EstIdle /\ FnIdle

CoeffCall ==
    /\ \E kinds \in [DOMAIN default_coefficients -> SecretKinds], n \in NutInputs :
          /\ cfg_in' = [secrets |-> config_of(kinds), nut |-> n]
          /\ cfg_out' = calculate_with(config_of(kinds), n[1], n[2], n[3], n[4])
    /\ UNCHANGED <<app_vars, est_vars, norm_raw, norm_out>>

CoeffNext == CoeffCall

SpecCoeff == CoeffInit /\ [][CoeffNext]_vars

\* All six coefficients are set, each to a number.
FullyConfigured(config) ==
    /\ DOMAIN default_coefficients \subseteq DOMAIN config
    /\ \A k \in DOMAIN default_coefficients : config[k].kind = "num"

\* C16: calculate_poop_amount never raises, and when a coefficient is
\* absent or is not a number it returns what the six defaults give, never
\* the result of a mix of configured and default coefficients.
C16_Fallback ==
    /\ ~cfg_out.raised
    /\ ~FullyConfigured(cfg_in.secrets) =>
          cfg_out.value = poop_of(default_coefficients, cfg_in.nut[1],
                                  cfg_in.nut[2], cfg_in.nut[3], cfg_in.nut[4])

-----------------------------------------------------------------------------
(* The estimator on bounded logs *)

MaxEstMeals == 3
MaxEstPoops == 3

EstMealDates == {0 * Hour, 10 * Hour, 34 * Hour, 35 * Hour}
EstPoopDates == {20 * Hour, 34 * Hour, 57 * Hour, 110 * Hour}
EstNows == {30 * Hour + 30, 60 * Hour + 30, 100 * Hour + 30}

EstInit ==
    /\ AppInit
    /\ FnIdle
    /\ est_meals = <<>>
    /\ est_poops = <<>>
    /\ est_now \in EstNows
    /\ est_out = estimate_transit_hours(<<>>, <<>>, est_now)

EstAddMeal ==
    /\ Len(est_meals) < MaxEstMeals
    /\ \E d \in EstMealDates :
          est_meals' = Append(est_meals, [date |-> format_dt(d)])
    /\ est_out' = estimate_transit_hours(est_meals', est_poops, est_now)
    /\ UNCHANGED <<est_poops, est_now>>
    /\ UNCHANGED <<app_vars, fn_vars>>

EstAddPoop ==
    /\ Len(est_poops) < MaxEstPoops
    /\ \E d \in EstPoopDates :
          est_poops' = Append(est_poops, [date |-> format_dt(d)])
    /\ est_out' = estimate_transit_hours(est_meals, est_poops', est_now)
    /\ UNCHANGED <<est_meals, est_now>>
    /\ UNCHANGED <<app_vars, fn_vars>>

EstNext == EstAddMeal \/ EstAddPoop

SpecTransit == EstInit /\ [][EstNext]_vars

-----------------------------------------------------------------------------
(* What the estimator is to compute, stated without its loops *)

\* The entries of a log whose date lies in [lo, hi].
DatedWithin(log, lo, hi) ==
    {i \in DOMAIN log : lo <= log[i].date /\ log[i].date <= hi}

\* The eliminations of P at or after the meal i.
AtOrAfter(meals, i, poops, P) ==
    {j \in P : poops[j].date >= meals[i].date}

\* The earliest date among the eliminations J (J not empty).
Earliest(poops, J) ==
    CHOOSE d \in {poops[j].date : j \in J} : \A j \in J : d <= poops[j].date

\* The meal i has a sample among the eliminations P, and its value.
HasSample(meals, i, poops, P) ==
    /\ AtOrAfter(meals, i, poops, P) # {}
    /\ Earliest(poops, AtOrAfter(meals, i, poops, P)) - meals[i].date
           <= max_hours * Hour

SampleOf(meals, i, poops, P) ==
    Earliest(poops, AtOrAfter(meals, i, poops, P)) - meals[i].date

SampledMeals(meals, M, poops, P) ==
    {i \in M : HasSample(meals, i, poops, P)}

\* m is the statistical median of the values v[i], i in I (I not empty):
\* the value of middle rank, or the mean of the two of middle rank.
RankIn(v, I, i) ==
    1 + Cardinality({k \in I : v[k] < v[i] \/ (v[k] = v[i] /\ k < i)})

IsMedianOf(m, v, I) ==
    LET n == Cardinality(I)
    IN  \E a, b \in I :
           /\ RankIn(v, I, a) = (n + 1) \div 2
           /\ RankIn(v, I, b) = n \div 2 + 1
           /\ 2 * m = v[a] + v[b]

EstCutoff == est_now - window_days * Day
FarFuture == 1000 * Day

\* The events of the window [now - window_days, now].
WindowMeals == DatedWithin(est_meals, EstCutoff, est_now)
WindowPoops == DatedWithin(est_poops, EstCutoff, est_now)
\* The events that are not older than the window.
RecentMeals == DatedWithin(est_meals, EstCutoff, FarFuture)
RecentPoops == DatedWithin(est_poops, EstCutoff, FarFuture)

\* C7: the diagnostics count, and the samples come from, only the events
\* dated within [now - window_days, now]: an event dated before the window
\* or after now is neither counted nor paired.
C7_WindowFilter ==
    /\ est_out.stats.meals = Cardinality(WindowMeals)
    /\ est_out.stats.poops = Cardinality(WindowPoops)
    /\ est_out.stats.samples <= Cardinality(WindowMeals)

\* C8: every meal of the window contributes the elapsed time to the first
\* elimination of the window at or after it (a tie counts) if that is at
\* most max_hours, and nothing otherwise; with at least min_samples samples
\* the result is their statistical median.
C8_PairingAndMedian ==
    LET S == SampledMeals(est_meals, WindowMeals, est_poops, WindowPoops)
        v == [i \in S |-> SampleOf(est_meals, i, est_poops, WindowPoops)]
        d == transit_deltas(est_meals, est_poops, est_now)
    IN  /\ Len(d) = Cardinality(S)
        /\ \A x \in {v[i] : i \in S} \cup {d[k] : k \in DOMAIN d} :
              Cardinality({k \in DOMAIN d : d[k] = x})
                  = Cardinality({i \in S : v[i] = x})
        /\ Cardinality(S) >= min_samples => IsMedianOf(est_out.median, v, S)

\* The same pairing and median over the events the estimator keeps (those
\* not older than the window, whatever their relation to now).
PairingAndMedianOfRecent ==
    LET S == SampledMeals(est_meals, RecentMeals, est_poops, RecentPoops)
        v == [i \in S |-> SampleOf(est_meals, i, est_poops, RecentPoops)]
        d == transit_deltas(est_meals, est_poops, est_now)
    IN  /\ Len(d) = Cardinality(S)
        /\ \A x \in {v[i] : i \in S} \cup {d[k] : k \in DOMAIN d} :
              Cardinality({k \in DOMAIN d : d[k] = x})
                  = Cardinality({i \in S : v[i] = x})
        /\ Cardinality(S) >= min_samples => IsMedianOf(est_out.median, v, S)

\* The scenario of C9: the second state adds the pair (35 h, 57 h).
DatesOf(log) == {log[i].date : i \in DOMAIN log}

ScenarioTwoPairs ==
    /\ est_now = 60 * Hour + 30
    /\ Len(est_meals) = 2 /\ DatesOf(est_meals) = {0 * Hour, 10 * Hour}
    /\ Len(est_poops) = 2 /\ DatesOf(est_poops) = {20 * Hour, 34 * Hour}

ScenarioThreePairs ==
    /\ est_now = 60 * Hour + 30
    /\ Len(est_meals) = 3
    /\ DatesOf(est_meals) = {0 * Hour, 10 * Hour, 35 * Hour}
    /\ Len(est_poops) = 3
    /\ DatesOf(est_poops) = {20 * Hour, 34 * Hour, 57 * Hour}

\* C9 as stated: meals at hours 0 and 10 with eliminations at hours 20 and
\* 34 give the samples [20, 24]; with a third pair of sample 22 the
\* estimator returns 22.0.
C9_ScenarioAsStated ==
    /\ ScenarioTwoPairs =>
          transit_deltas(est_meals, est_poops, est_now) = <<20 * Hour, 24 * Hour>>
    /\ ScenarioThreePairs => est_out.median = 22 * Hour

\* C9 amended: the samples are [20, 10], both meals being paired with the
\* elimination at hour 20, and no median is returned; with the third pair
\* the samples are [20, 10, 22] and the estimator returns 20.0.
C9_Scenario ==
    /\ ScenarioTwoPairs =>
          /\ transit_deltas(est_meals, est_poops, est_now) = <<20 * Hour, 10 * Hour>>
          /\ est_out.median = None
    /\ ScenarioThreePairs =>
          /\ transit_deltas(est_meals, est_poops, est_now)
                 = <<20 * Hour, 10 * Hour, 22 * Hour>>
          /\ est_out.median = 20 * Hour

C9_Witness == ScenarioThreePairs /\ est_out.stats.samples = 3

\* C10: with fewer than min_samples samples the median is undefined and the
\* diagnostics carry the number of samples collected, 0 when a filtered
\* list is empty, however many meals and eliminations are counted.
C10_Insufficient ==
    LET n == Cardinality(SampledMeals(est_meals, RecentMeals, est_poops, RecentPoops))
    IN  n < min_samples =>
           /\ est_out.median = None
           /\ est_out.stats.samples = n
           /\ (RecentMeals = {} \/ RecentPoops = {}) => est_out.stats.samples = 0

C10_Witness ==
    /\ est_out.median = None
    /\ est_out.stats.meals = 2
    /\ est_out.stats.poops = 3
    /\ est_out.stats.samples = 2

====
